---- MODULE Spec2Model ----
(***************************************************************************)
(* hClient: the session / signing-wormhole manager of src/src/index.ts.    *)
(*                                                                         *)
(* The module-level state of hClient (keypair, websocket, _happId), the    *)
(* rpc-websockets channel it drives (subscriptions, listeners, calls sent) *)
(* and the asynchronous flows that run over it: connect (_postConnect),    *)
(* login (startLoginProcess), application calls (_preCall / _postCall) and *)
(* sign-events pushed by the host.  Every await of the source is a point   *)
(* where another flow may run, so every flow is cut into one action per    *)
(* synchronous stretch of code.                                            *)
(***************************************************************************)
EXTENDS Naturals, Sequences, FiniteSets, Bags, TLC

(***************************************************************************)
(* Bounds of the model.                                                    *)
(***************************************************************************)
\* how many logins, application calls and sign-events are started in all
MaxLogins == 2
MaxCalls == 1
MaxEvents == 2
\* how many key-management operations are run in all
MaxKeyOps == 3

(***************************************************************************)
(* Values.                                                                 *)
(***************************************************************************)
\* `let keypair` before any assignment, and the keypair bound after
\* regenerateReadwriteKeypair completed without one
Undefined == "undefined"
\* the keypair generateReadonlyKeypair derives (fresh entropy every time)
ReadonlyKey == "R"
\* the keypairs a login derives from (email, password, salt)
LoginKeys == {"A"}
Keys == {ReadonlyKey} \cup LoginKeys

\* a byte string or encoded string: what it is, whose it is, what it is made of
Val(kind, key, data) == [kind |-> kind, key |-> key, data |-> data]
UndefVal == Val("undefined", "", <<>>)

\* the fields Keypair.newFromSeed fills in for the seed of k
KeypairOf(k) ==
  [ pubkeys  |-> Val("pubkeys", k, <<"signPub", "encPub">>),
    signPub  |-> Val("signPub", k, <<>>),
    signPriv |-> Val("signPriv", k, <<>>),
    encPub   |-> Val("encPub", k, <<>>),
    encPriv  |-> Val("encPriv", k, <<>>) ]

\* crypto_sign_detached(data, this._signPriv)
Sign(kp, data) == Val("sig", kp.signPriv.key, data)
\* crypto_sign_verify_detached(signature, data, signPub)
Verify(signature, data, signPub) ==
  signature.kind = "sig" /\ signature.key = signPub.key /\ signature.data = data
\* sodium.to_base64(bytes)
ToBase64(v) == Val("base64", v.key, <<v.kind>> \o v.data)
\* new Encoding('hcs0').encode(bytes)
HcsEncode(v) == Val("hcs0", v.key, <<v.kind>>)

\* getCurrentAgentId, before its await: if (keypair)
AgentIdGuard(kp) == kp # Undefined
\* a getCurrentAgentId that encodes the private half of the signing keypair
AgentIdEncodePriv(kp) == HcsEncode(KeypairOf(kp).signPriv)
\* getCurrentAgentId, after its await: enc.encode(keypair._signPub)
AgentIdEncode(kp) == HcsEncode(KeypairOf(kp).signPub)

\* `agent/${agentId}/sign`
EventName(agentId) == [prefix |-> "agent", agentId |-> agentId, suffix |-> "sign"]

\* _happId, set by makeWebClient
HappId == Val("happId", "", <<"happ">>)

(***************************************************************************)
(* Calls on the wire.  A method name or call string is the sequence of its *)
(* '/'-separated segments.                                                 *)
(***************************************************************************)
HoloIdentify == <<"holo", "identify">>
HoloAgentsNew == <<"holo", "agents", "new">>
HoloCall == <<"holo", "call">>
HoloClientSignature == <<"holo", "clientSignature">>

\* websocket.call(method, params)
HostMsg(method, params) == [to |-> "host", method |-> method, params |-> params]
\* fetch(saltmineUrl, {method, body})
SaltMsg(method, params) == [to |-> "saltmine", method |-> <<method>>, params |-> params]

\* websocket.call('holo/identify', { agentId })
IdentifyMsg(agentId) == HostMsg(HoloIdentify, [agentId |-> agentId])
\* websocket.call('holo/agents/new', { agentId, happId })
AgentsNewMsg(agentId) == HostMsg(HoloAgentsNew, [agentId |-> agentId, happId |-> HappId])

\* a sign handler that signs the request id where it should sign the entry
ClientSignatureParamsOverId(signer, entry, id) ==
  [signature |-> ToBase64(Sign(KeypairOf(signer), <<"id">>)), requestId |-> id]
\* the sign handler: keypair.sign(entry), toBase64, { signature, requestId: id }
ClientSignatureParams(signer, entry, id) ==
  [signature |-> ToBase64(Sign(KeypairOf(signer), entry)), requestId |-> id]
\* the sign handler: websocket.call('holo/clientSignature', { signature, requestId })
ClientSignatureMsg(signer, entry, id) ==
  HostMsg(HoloClientSignature, ClientSignatureParams(signer, entry, id))

\* getRemoteEntropy: callSaltmine('GET')
EntropyRequest == SaltMsg("GET", [body |-> UndefVal])
\* registerSalt: callSaltmine('POST', { email, salt })
RegisterSaltRequest(email, salt) == SaltMsg("POST", [email |-> email, salt |-> salt])
\* getRegisteredSalt: callSaltmine('GET', { email }), the body stays undefined
RegisteredSaltRequest(email) == SaltMsg("GET", [body |-> UndefVal, query |-> email])

\* the requests generateReadonlyKeypair sends
ReadonlyKeyRequests == SetToBag({EntropyRequest})
\* the requests generateNewReadwriteKeypair sends: the salt is the XOR of the
\* two entropies, base64-encoded
NewKeyRequests(email, k) ==
  SetToBag({EntropyRequest,
            RegisterSaltRequest(email, ToBase64(Val("salt", k, <<>>)))})
\* the request regenerateReadwriteKeypair sends
RegenerateKeyRequests(email) == SetToBag({RegisteredSaltRequest(email)})

(***************************************************************************)
(* Application calls.                                                      *)
(***************************************************************************)
\* the call strings and params the application passes to call(...)(params)
CallStrings == {<<"inst", "zome", "fn">>, <<"fn">>}
ParamSets == {<<>>, <<<<"x", "1">>>>}

\* const [instanceId, zome, funcName] = callString.split('/')
Segment(callString, i) ==
  IF i <= Len(callString) THEN Val("string", "", <<callString[i]>>) ELSE UndefVal

RECURSIVE StringifyParams(_)
\* JSON.stringify of the params object, property by property in insertion order
StringifyParams(params) ==
  IF params = <<>> THEN <<>>
  ELSE <<params[1][1], params[1][2]>> \o StringifyParams(Tail(params))

\* JSON.stringify({ method: callString, params })
StringifyCall(callString, params) ==
  <<"method">> \o callString \o <<"params">> \o StringifyParams(params)

\* a _preCall without its guard
PreCallGuardMissing(kp) == TRUE
\* _preCall: if (!keypair) throw new Error('trying to call with no keys')
PreCallGuard(kp) == kp # Undefined

\* a _preCall that signs the envelope fields along with the call
SignedPayloadWithEnvelope(callString, params, agentId, happId) ==
  StringifyCall(callString, params) \o <<"agentId", agentId.key, "happId">> \o happId.data
\* _preCall: what keypair.sign is given; agentId and happId are the fields the
\* envelope is built with afterwards
SignedPayload(callString, params, agentId, happId) == StringifyCall(callString, params)

\* _preCall: callParams
Envelope(callString, params, agentId, signature) ==
  [ agentId    |-> agentId,
    happId     |-> HappId,
    instanceId |-> Segment(callString, 1),
    zome       |-> Segment(callString, 2),
    function   |-> Segment(callString, 3),
    args       |-> params,
    signature  |-> signature ]

\* a _preCall that hands the call string through
OuterMethodUnchanged(callString) == callString
\* _preCall: the callString of { callString: 'holo/call', params: callParams }
OuterMethod(callString) == HoloCall

(***************************************************************************)
(* Responses.                                                              *)
(***************************************************************************)
\* what the host's holo/call returns: JSON texts, and one text that is no JSON
Responses == {"{Ok}", "{Err:{code:401}}", "{Err:no such function}", "not json"}

\* JSON.parse(response): whether it throws, and responseJson.Err.code
JsonParse(response) ==
  CASE response = "{Ok}" -> [throws |-> FALSE, hasErr |-> FALSE, code |-> 0]
    [] response = "{Err:{code:401}}" -> [throws |-> FALSE, hasErr |-> TRUE, code |-> 401]
    [] response = "{Err:no such function}" -> [throws |-> FALSE, hasErr |-> TRUE, code |-> 0]
    [] OTHER -> [throws |-> TRUE, hasErr |-> FALSE, code |-> 0]

\* a _postCall that prompts on every error response
PostCallPromptsOnErr(response) ==
  LET r == JsonParse(response)
  IN IF ~r.throws /\ r.hasErr THEN 1 ELSE 0
\* _postCall: how many times triggerLoginPrompt is called for a response
PostCallPrompts(response) ==
  LET r == JsonParse(response)
  IN IF ~r.throws /\ r.hasErr /\ r.code = 401 THEN 1 ELSE 0

\* a _postCall that returns what it parsed
PostCallResultParsed(response) == [form |-> "parsed", body |-> response]
\* _postCall: return response
PostCallResult(response) == [form |-> "text", body |-> response]

(***************************************************************************)
(* Key management (src/src/keyManagement.ts).  Byte arrays and strings are *)
(* sequences of numbers 0..255: the bytes, or the char codes of the text.  *)
(***************************************************************************)
\* the length of an entropy: new Uint8Array(32), .slice(0, 32)
EntropyBytes == 32
\* the length of the salt pwHash is given: registeredSalt.slice(0, 16)
SaltSliceLen == 16

RECURSIVE Xor(_, _)
\* x ^ y on bytes
Xor(x, y) ==
  IF x = 0 THEN y
  ELSE IF y = 0 THEN x
  ELSE (((x % 2) + (y % 2)) % 2) + (2 * Xor(x \div 2, y \div 2))

\* b[i] for i beyond the end of b is undefined, and a[i] ^ undefined is a[i]
ByteAt(b, i) == IF i <= Len(b) THEN b[i] ELSE 0

\* XorUint8Array has no test of the lengths: it always returns r
XorOutcome(a, b) == "returned"

\* an XorUint8Array that adds the bytes
XorUint8ArrayAdds(a, b) == [i \in 1..Len(a) |-> (a[i] + ByteAt(b, i)) % 256]
\* XorUint8Array(a, b): r = new Uint8Array(a.length); r[i] = a[i] ^ b[i]
XorUint8Array(a, b) == [i \in 1..Len(a) |-> Xor(a[i], ByteAt(b, i))]

\* the char code of a base64 digit (base64_variants.ORIGINAL: A-Z a-z 0-9 + /)
Base64Char(s) ==
  IF s < 26 THEN 65 + s
  ELSE IF s < 52 THEN 97 + (s - 26)
  ELSE IF s < 62 THEN 48 + (s - 52)
  ELSE IF s = 62 THEN 43 ELSE 47
\* the char code of the padding '='
Base64Pad == 61
\* the digit of a char code, 64 for what is no digit
Base64Digit(c) ==
  IF c >= 65 /\ c <= 90 THEN c - 65
  ELSE IF c >= 97 /\ c <= 122 THEN (c - 97) + 26
  ELSE IF c >= 48 /\ c <= 57 THEN (c - 48) + 52
  ELSE IF c = 43 THEN 62
  ELSE IF c = 47 THEN 63 ELSE 64

RECURSIVE EncodeBase64(_)
\* sodium.to_base64(bytes, ORIGINAL): three bytes to four digits, padded
EncodeBase64(bytes) ==
  IF Len(bytes) = 0 THEN <<>>
  ELSE IF Len(bytes) = 1
    THEN << Base64Char(bytes[1] \div 4), Base64Char((bytes[1] % 4) * 16),
            Base64Pad, Base64Pad >>
  ELSE IF Len(bytes) = 2
    THEN << Base64Char(bytes[1] \div 4),
            Base64Char(((bytes[1] % 4) * 16) + (bytes[2] \div 16)),
            Base64Char((bytes[2] % 16) * 4), Base64Pad >>
  ELSE << Base64Char(bytes[1] \div 4),
          Base64Char(((bytes[1] % 4) * 16) + (bytes[2] \div 16)),
          Base64Char(((bytes[2] % 16) * 4) + (bytes[3] \div 64)),
          Base64Char(bytes[3] % 64) >> \o EncodeBase64(SubSeq(bytes, 4, Len(bytes)))

RECURSIVE DecodeBase64(_)
\* sodium.from_base64(text, ORIGINAL) of a text it accepts
DecodeBase64(text) ==
  IF Len(text) = 0 THEN <<>>
  ELSE LET d1 == Base64Digit(text[1])
           d2 == Base64Digit(text[2])
           d3 == Base64Digit(text[3])
           d4 == Base64Digit(text[4])
           b1 == (d1 * 4) + (d2 \div 16)
           b2 == ((d2 % 16) * 16) + (d3 \div 4)
           b3 == ((d3 % 4) * 64) + d4
       IN IF text[3] = Base64Pad THEN <<b1>>
          ELSE IF text[4] = Base64Pad THEN <<b1, b2>>
          ELSE <<b1, b2, b3>> \o DecodeBase64(SubSeq(text, 5, Len(text)))

\* x.slice(0, n), of a Uint8Array and of a string alike
Slice(x, n) == SubSeq(x, 1, IF Len(x) < n THEN Len(x) ELSE n)

\* registerSalt / getRegisteredSalt: r.text(), fromBase64, new Uint8Array(buffer).slice(0, 32)
SaltFromResponse(text) == Slice(DecodeBase64(text), EntropyBytes)

\* pwHash(password, salt): crypto_pwhash with the fixed limits and algorithm,
\* a function of the password and the salt bytes
PwHash(password, salt) == [kind |-> "hash", password |-> password, salt |-> salt]

\* generateNewReadwriteKeypair, catch: registeredSalt = saltString
UnregisteredSalt(saltBytes, saltString) == saltString

\* the passwords typed, and the emails
Passwords == {"pw", "other"}

(***************************************************************************)
(* Keypair and the helpers of dpki-ultralite.  Keys, seeds and identity    *)
(* strings are sequences of numbers 0..255; signatures and ciphertexts are *)
(* records of what went into them.                                         *)
(***************************************************************************)
\* the length of a public key: tmp.slice(0, 32), tmp.slice(32, 64)
PubKeyBytes == 32

\* a field of a Keypair that was not given to the constructor
Absent == <<>>

\* the bytes shifted by t: the stand-in for a one-way derivation
Tag(bytes, t) == [i \in 1..Len(bytes) |-> (bytes[i] + t) % 256]

\* crypto_sign_seed_keypair(seed): a function of the seed; the private key
\* ends with the public key
SignSeedKeypair(seed) ==
  [publicKey |-> Tag(seed, 17), privateKey |-> seed \o Tag(seed, 17)]
\* crypto_kx_seed_keypair(seed): a function of the seed
KxSeedKeypair(seed) ==
  [publicKey |-> Tag(seed, 34), privateKey |-> Tag(seed, 51)]
\* the public key a private signing key belongs to
SignPubOf(signPriv) == SubSeq(signPriv, PubKeyBytes + 1, Len(signPriv))
\* the public key a private encryption key belongs to
EncPubOf(encPriv) == Tag(encPriv, 239)

\* x.slice(from, to)
SliceRange(x, from, to) == SubSeq(x, from + 1, IF Len(x) < to THEN Len(x) ELSE to)

\* sodium.to_base64(bytes): the default variant, URLSAFE_NO_PADDING
EncodeBase64Url(bytes) ==
  LET text == EncodeBase64(bytes)
      digits == SelectSeq(text, LAMBDA c : c # Base64Pad)
  IN [i \in 1..Len(digits) |->
        IF digits[i] = 43 THEN 45 ELSE IF digits[i] = 47 THEN 95 ELSE digits[i]]

\* sodium.from_base64(text): the default variant, URLSAFE_NO_PADDING
DecodeBase64Url(text) ==
  LET digits == [i \in 1..Len(text) |->
                   IF text[i] = 45 THEN 43 ELSE IF text[i] = 95 THEN 47 ELSE text[i]]
      padded == IF (Len(text) % 4) = 2 THEN digits \o <<Base64Pad, Base64Pad>>
                ELSE IF (Len(text) % 4) = 3 THEN digits \o <<Base64Pad>>
                ELSE digits
  IN DecodeBase64(padded)

\* an encodeId that puts the encryption key first
EncodeIdSwapped(signPub, encPub) == EncodeBase64Url(encPub \o signPub)
\* encodeId(signPub, encPub): to_base64(new Uint8Array([...signPub, ...encPub]))
EncodeId(signPub, encPub) == EncodeBase64Url(signPub \o encPub)

\* decodeId(id): { signPub: tmp.slice(0, 32), encPub: tmp.slice(32, 64) }
DecodeId(id) ==
  LET tmp == DecodeBase64Url(id)
  IN [ signPub |-> SliceRange(tmp, 0, PubKeyBytes),
       encPub |-> SliceRange(tmp, PubKeyBytes, 2 * PubKeyBytes) ]

\* Keypair.newFromSeed(seed)
NewFromSeed(seed) ==
  LET s == SignSeedKeypair(seed)
      x == KxSeedKeypair(seed)
  IN [ pubkeys |-> EncodeId(s.publicKey, x.publicKey),
       signPub |-> s.publicKey, signPriv |-> s.privateKey,
       encPub |-> x.publicKey, encPriv |-> x.privateKey ]

\* new Keypair({ pubkeys, signPub, encPub }): initialized without the private
\* halves of the pairs
PublicOnly(kp) ==
  [ pubkeys |-> kp.pubkeys, signPub |-> kp.signPub, signPriv |-> Absent,
    encPub |-> kp.encPub, encPriv |-> Absent ]

\* _sodium.randombytes_buf(count) that returns the same bytes every time
RandomBytesSame(drawn, count) == [kind |-> "random", n |-> 1, count |-> count]
\* _sodium.randombytes_buf(count) after `drawn` earlier draws: the bytes of a
\* draw are named by the number of the draw
RandomBytesBuf(drawn, count) == [kind |-> "random", n |-> drawn + 1, count |-> count]

\* SALTBYTES, NONCEBYTES, and the length of the symmetric secret of encrypt
SaltBytes == 16
NonceBytes == 24
SymSecretBytes == 32

\* a sign that does not look at signPriv
SignGuardMissing(kp) == TRUE
\* Keypair.sign: if (!this._signPriv) throw ...
SignGuard(kp) == kp.signPriv # Absent
NoSignPriv == "no signPriv - cannot sign data"

\* crypto_sign_detached(data, signPriv)
CryptoSignDetached(data, signPriv) ==
  [kind |-> "signature", signer |-> SignPubOf(signPriv), data |-> data, intact |-> TRUE]
\* a verification that accepts the signature of any signer
CryptoSignVerifyAnySigner(signature, data, signPub) ==
  signature.intact /\ signature.data = data
\* crypto_sign_verify_detached(signature, data, signPub)
CryptoSignVerifyDetached(signature, data, signPub) ==
  signature.intact /\ signature.signer = signPub /\ signature.data = data
\* util.verify(signature, data, signerId)
UtilVerify(signature, data, signerId) ==
  CryptoSignVerifyDetached(signature, data, DecodeId(signerId).signPub)

\* the session key a server and a client agree on for the server-to-client
\* direction, from the two public keys named and the key exchange itself
KxSessionKey(serverPub, clientPub, exchanged) ==
  [kind |-> "kx", server |-> serverPub, client |-> clientPub, exchanged |-> exchanged]
\* crypto_kx_server_session_keys(pub, priv, clientPub)
CryptoKxServerSessionKeys(pub, priv, clientPub) ==
  [sharedTx |-> KxSessionKey(pub, clientPub, {EncPubOf(priv), clientPub})]
\* crypto_kx_client_session_keys(pub, priv, serverPub)
CryptoKxClientSessionKeys(pub, priv, serverPub) ==
  [sharedRx |-> KxSessionKey(serverPub, pub, {EncPubOf(priv), serverPub})]

\* crypto_aead_xchacha20poly1305_ietf_encrypt(message, null, null, nonce, key)
AeadEncrypt(message, nonce, key) ==
  [kind |-> "aead", message |-> message, nonce |-> nonce, key |-> key, intact |-> TRUE]
\* whether crypto_aead_xchacha20poly1305_ietf_decrypt(null, cipher, null, nonce, key)
\* returns the message instead of throwing
AeadOpens(cipher, nonce, key) ==
  cipher.intact /\ cipher.nonce = nonce /\ cipher.key = key

\* msgpack.encode(x) and msgpack.decode(buffer); an undefined element comes
\* back as null, and both are Absent here
MsgpackEncode(x) == [kind |-> "msgpack", of |-> x]
MsgpackDecode(buffer) == buffer.of

\* _sodium.to_string(bytes)
SodiumToString(bytes) == [kind |-> "string", utf8 |-> bytes]

\* util.pwEnc(data, passphrase) after `drawn` earlier draws: pwHash draws the
\* salt, pwEnc the nonce
PwEnc(data, passphrase, drawn) ==
  LET salt == RandomBytesBuf(drawn, SaltBytes)
      secret == PwHash(passphrase, salt)
      nonce == RandomBytesBuf(drawn + 1, NonceBytes)
  IN MsgpackEncode([salt |-> salt, nonce |-> nonce,
                    cipher |-> AeadEncrypt(data, nonce, secret)])

\* util.pwDec(data, passphrase): a decryption that throws does so inside the
\* callback of _sodium.ready.then, and the promise returned never settles
PwDec(data, passphrase) ==
  LET decodedData == MsgpackDecode(data)
      secret == PwHash(passphrase, decodedData.salt)
  IN IF AeadOpens(decodedData.cipher, decodedData.nonce, secret)
     THEN [outcome |-> "resolved", value |-> decodedData.cipher.message]
     ELSE [outcome |-> "pending", value |-> MsgpackEncode(<<>>)]

\* a getBundle that leaves the private keys out of the bundle
GetBundlePublic(kp, passphrase, hint, drawn) ==
  [ type |-> "hcKeypair", hint |-> hint,
    data |-> PwEnc(MsgpackEncode(<<kp.signPub, kp.encPub, Absent, Absent>>),
                   passphrase, drawn) ]
\* Keypair.getBundle(passphrase, hint)
GetBundle(kp, passphrase, hint, drawn) ==
  [ type |-> "hcKeypair", hint |-> hint,
    data |-> PwEnc(MsgpackEncode(<<kp.signPub, kp.encPub, kp.signPriv, kp.encPriv>>),
                   passphrase, drawn) ]

\* Keypair.fromBundle(bundle, passphrase): the promise settles only from the
\* callback of util.pwDec(...).then
FromBundle(bundle, passphrase) ==
  LET encodedBundle == PwDec(bundle.data, passphrase)
      fields == MsgpackDecode(encodedBundle.value)
  IN IF encodedBundle.outcome = "resolved"
     THEN [ outcome |-> "resolved",
            keypair |-> [ pubkeys |-> EncodeId(fields[1], fields[2]),
                          signPub |-> fields[1], signPriv |-> fields[3],
                          encPub |-> fields[2], encPriv |-> fields[4] ] ]
     ELSE [ outcome |-> "pending", keypair |-> PublicOnly(NewFromSeed(<<>>)) ]

\* a decrypt that tries the first slot alone
DecryptSlotsFirst(cipher) == {0}
\* for (let i = 0; i < cipher.length - 2; i += 2)
DecryptSlots(cipher) == {i \in 0..(Len(cipher) - 3) : (i % 2) = 0}
NotARecipient == "could not decrypt - not a recipient?"

\* Keypair.decrypt(sId, cipher) on the keypair kp: a key exchange or a
\* decryption that throws outside the try does so inside a callback, and the
\* promise returned never settles
Decrypt(kp, sId, cipherBuffer) ==
  LET cipher == MsgpackDecode(cipherBuffer)
      sourceId == DecodeId(sId).encPub
      rx == CryptoKxClientSessionKeys(kp.encPub, kp.encPriv, sourceId).sharedRx
      opened == {i \in DecryptSlots(cipher) : AeadOpens(cipher[i + 2], cipher[i + 1], rx)}
      slot == CHOOSE i \in opened : \A j \in opened : j <= i
      symSecret == cipher[slot + 2].message
      payload == cipher[Len(cipher)]
  IN IF kp.encPub = Absent \/ kp.encPriv = Absent
     THEN [outcome |-> "pending", error |-> "", value |-> SodiumToString(<<>>)]
     ELSE IF opened = {}
     THEN [outcome |-> "rejected", error |-> NotARecipient, value |-> SodiumToString(<<>>)]
     ELSE IF AeadOpens(payload, cipher[Len(cipher) - 1], symSecret)
     THEN [outcome |-> "resolved", error |-> "", value |-> SodiumToString(payload.message)]
     ELSE [outcome |-> "pending", error |-> "", value |-> SodiumToString(<<>>)]

(***************************************************************************)
(* State.                                                                  *)
(***************************************************************************)
VARIABLES
  keypair,    \* let keypair: a key of Keys, or Undefined
  websocket,  \* let websocket: whether it holds the open channel
  subs,       \* the event names the channel is subscribed to (websocket.subscribe)
  handlers,   \* the bag of listeners registered per event name (websocket.on)
  wire,       \* the bag of requests sent and not yet answered (host and salt service)
  signatures, \* the bag of holo/clientSignature calls sent
  flows,      \* flow 0 is connect (_postConnect), flows 1.. are startLoginProcess runs
  calls,      \* the invocations of the wrapped call(...)(params)
  events,     \* the sign-events the host has pushed
  prompts,    \* how many times triggerLoginPrompt has been called
  identified, \* the agent ids holo/identify has been sent for
  km,         \* keyManagement.ts: saltmineUrl, the salt service, the derivation last run
  lib,        \* dpki-ultralite: the draws made, what a Keypair operation last produced
  api         \* the client connect() resolved with: one call made in each of its forms

vars == <<keypair, websocket, subs, handlers, wire, signatures, flows, calls, events, prompts,
          identified, km, lib, api>>

ConnectFlow == 0
LoginIds == 1..MaxLogins
FlowIds == {ConnectFlow} \cup LoginIds
CallIds == 1..MaxCalls
EventIds == 1..MaxEvents

\* the event names an agent id of this session can lead to
EventNames == {EventName(AgentIdEncode(k)) : k \in Keys} \cup {EventName(UndefVal)}
\* the entries the host asks signatures for
Entries == {<<"abc">>, <<"fake_entry_string">>}
\* the email typed into the login dialog
Email == Val("email", "user", <<>>)

\* a flow: where it stands, what getCurrentAgentId saw before its await, the
\* agent id it resolved to, and the requests it awaits an answer to
IdleFlow == [pc |-> "idle", guard |-> FALSE, agentId |-> UndefVal, awaits |-> EmptyBag]
IdleCall ==
  [ pc |-> "idle", bound |-> FALSE, callString |-> <<>>, params |-> <<>>,
    signer |-> Undefined, guard |-> FALSE, method |-> <<>>, envelope |-> <<>>,
    response |-> "", result |-> <<>> ]
IdleEvent ==
  [ pc |-> "idle", name |-> EventName(UndefVal), entry |-> <<>>, id |-> 0,
    signer |-> Undefined, pending |-> 0 ]

\* hClient and its channel after construction
SessionInit ==
  /\ keypair = Undefined
  /\ websocket = FALSE
  /\ subs = {}
  /\ handlers = EmptyBag
  /\ wire = EmptyBag
  /\ signatures = EmptyBag
  /\ flows = [f \in FlowIds |-> IdleFlow]
  /\ calls = [c \in CallIds |-> IdleCall]
  /\ events = [e \in EventIds |-> IdleEvent]
  /\ prompts = 0
  /\ identified = {}

\* a seed and a keypair where there is none
NoSeed == PwHash("", <<>>)
NoKeypair == KeypairOf(NoSeed)
\* no key-management operation has run
NoLast ==
  [ op |-> "none", outcome |-> "none", password |-> "", service |-> "none",
    hasKeypair |-> FALSE, keypair |-> NoKeypair, value |-> <<>>, requests |-> <<>> ]
\* keyManagement.ts as loaded: saltmineUrl without a query, nothing registered
\* with the salt service; a and b are the byte arrays the entropy sources hold
IdleKeys(a, b) ==
  [ a |-> a, b |-> b, saltmineUrl |-> <<>>,
    store |-> [present |-> FALSE, text |-> <<>>],
    registered |-> [present |-> FALSE, password |-> "", keypair |-> NoKeypair],
    remoteCalls |-> 0, localCalls |-> 0,
    last |-> NoLast, ops |-> 0 ]

\* nothing held by the caller, no operation of Keypair run, no encryption under
\* way; the caller holds what the last signing, encryption or bundling made
NoArtifact == [kind |-> "none"]
NoResult == [op |-> "none"]
NoTask == [queue |-> <<>>, out |-> <<>>]
\* dpki-ultralite as loaded
IdleLib ==
  [ready |-> FALSE, draws |-> 0, held |-> NoArtifact, last |-> NoResult, task |-> NoTask]

\* the ways the client takes a zome call
Forms == {"call", "callString", "callZome"}
\* no call chosen, none made
IdleApi ==
  [ picked |-> FALSE, key |-> ReadonlyKey, instanceId |-> <<>>, zome |-> <<>>,
    func |-> <<>>, params |-> <<>>, sent |-> [form \in Forms |-> <<>>] ]

Init ==
  /\ SessionInit
  /\ km = IdleKeys(<<>>, <<>>)
  /\ lib = IdleLib
  /\ api = IdleApi

(***************************************************************************)
(* sendClientSignature(kp), cut at its awaits.                             *)
(***************************************************************************)
\* a sendClientSignature that does not look at the channel
BindChannelGuardMissing(ws) == TRUE
\* sendClientSignature: if (websocket)
BindChannelGuard(ws) == ws

\* keypair = kp; if (websocket) { getCurrentAgentId() up to its await } else throw
\* Error('Could not register callback as no valid websocket instance found')
BindStart(f, kp) ==
  /\ keypair' = kp
  /\ flows' = [flows EXCEPT ![f] =
       IF BindChannelGuard(websocket)
       THEN [IdleFlow EXCEPT !.pc = "encoding", !.guard = AgentIdGuard(kp)]
       ELSE [IdleFlow EXCEPT !.pc = "nochannel"]]

\* the agent id getCurrentAgentId resolves to: the keypair is read again after
\* the await of new Encoding('hcs0')
ResolvedAgentId(guard) == IF guard THEN AgentIdEncode(keypair) ELSE UndefVal
\* enc.encode(keypair._signPub) throws a TypeError when keypair is undefined by then
AgentIdThrows(guard) == guard /\ keypair = Undefined

\* agentId resolved; websocket.call('holo/identify', { agentId })
BindIdentify(f) ==
  /\ flows[f].pc = "encoding"
  /\ IF AgentIdThrows(flows[f].guard)
     THEN /\ flows' = [flows EXCEPT ![f] = [IdleFlow EXCEPT !.pc = "failed"]]
          /\ UNCHANGED <<wire, identified>>
     ELSE LET agentId == ResolvedAgentId(flows[f].guard)
          IN /\ flows' = [flows EXCEPT ![f].pc = "identify",
                                       ![f].agentId = agentId,
                                       ![f].awaits = SetToBag({IdentifyMsg(agentId)})]
             /\ wire' = wire (+) SetToBag({IdentifyMsg(agentId)})
             /\ identified' = identified \cup {agentId}
  /\ UNCHANGED <<keypair, websocket, subs, handlers, signatures, calls, events, prompts, km, lib, api>>

\* holo/identify returned: websocket.subscribe(event); websocket.on(event, handler).
\* A login flow keeps the agent id it identified with until requestHosting
\* has resolved its own.
BindSubscribe(f) ==
  /\ flows[f].pc = "identify"
  /\ wire' = wire (-) flows[f].awaits
  /\ subs' = subs \cup {EventName(flows[f].agentId)}
  /\ handlers' = handlers (+) SetToBag({EventName(flows[f].agentId)})
  /\ flows' = [flows EXCEPT ![f] =
       IF f = ConnectFlow THEN [IdleFlow EXCEPT !.pc = "done"]
       ELSE [IdleFlow EXCEPT !.pc = "bound", !.agentId = flows[f].agentId]]
  /\ UNCHANGED <<keypair, websocket, signatures, calls, events, prompts, identified, km, lib, api>>

\* a sendClientSignature that starts over when holo/identify is rejected
BindRejectedRetries(f) ==
  /\ flows[f].pc = "identify"
  /\ wire' = wire (-) flows[f].awaits
  /\ flows' = [flows EXCEPT ![f] = [IdleFlow EXCEPT !.pc = "encoding",
                                                     !.guard = flows[f].guard]]
  /\ UNCHANGED <<keypair, websocket, subs, handlers, signatures, calls, events, prompts, identified, km, lib, api>>

\* holo/identify was rejected: sendClientSignature throws, nothing is subscribed
BindRejected(f) ==
  /\ flows[f].pc = "identify"
  /\ wire' = wire (-) flows[f].awaits
  /\ flows' = [flows EXCEPT ![f] = [IdleFlow EXCEPT !.pc = "failed"]]
  /\ UNCHANGED <<keypair, websocket, subs, handlers, signatures, calls, events, prompts, identified, km, lib, api>>

(***************************************************************************)
(* connect: _postConnect(ws).                                              *)
(***************************************************************************)
\* websocket = ws; generateReadonlyKeypair() sends its entropy request
Connect ==
  /\ flows[ConnectFlow].pc = "idle"
  /\ websocket' = TRUE
  /\ wire' = wire (+) ReadonlyKeyRequests
  /\ flows' = [flows EXCEPT ![ConnectFlow].pc = "generating",
                            ![ConnectFlow].awaits = ReadonlyKeyRequests]
  /\ UNCHANGED <<keypair, subs, handlers, signatures, calls, events, prompts, identified, km, lib, api>>

\* the readonly keypair is there: sendClientSignature(kp)
ConnectBind ==
  /\ flows[ConnectFlow].pc = "generating"
  /\ wire' = wire (-) flows[ConnectFlow].awaits
  /\ BindStart(ConnectFlow, ReadonlyKey)
  /\ UNCHANGED <<websocket, subs, handlers, signatures, calls, events, prompts, identified, km, lib, api>>

(***************************************************************************)
(* login: startLoginProcess(email, password, newRegistration).             *)
(***************************************************************************)
\* generateNewReadwriteKeypair(email, password) or
\* regenerateReadwriteKeypair(email, password) sends its requests; k is the
\* key the password and the salt lead to
LoginStart(f, newRegistration, k) ==
  /\ flows[f].pc = "idle"
  /\ f > 1 => flows[f - 1].pc # "idle"
  /\ LET requests == IF newRegistration THEN NewKeyRequests(Email, k)
                                        ELSE RegenerateKeyRequests(Email)
     IN /\ wire' = wire (+) requests
        /\ flows' = [flows EXCEPT ![f].pc = IF newRegistration THEN "registering"
                                                               ELSE "regenerating",
                                  ![f].awaits = requests]
  /\ UNCHANGED <<keypair, websocket, subs, handlers, signatures, calls, events, prompts, identified, km, lib, api>>

\* the keypair is there: sendClientSignature(kp).  regenerateReadwriteKeypair
\* completes without a keypair when no salt is found.
LoginBind(f, kp) ==
  /\ flows[f].pc \in {"registering", "regenerating"}
  /\ flows[f].pc = "registering" => kp # Undefined
  /\ wire' = wire (-) flows[f].awaits
  /\ BindStart(f, kp)
  /\ UNCHANGED <<websocket, subs, handlers, signatures, calls, events, prompts, identified, km, lib, api>>

\* requestHosting(): if (websocket) { getCurrentAgentId() up to its await }
HostingStart(f) ==
  /\ flows[f].pc = "bound"
  /\ flows' = [flows EXCEPT ![f].pc = "hostEncoding", ![f].guard = AgentIdGuard(keypair)]
  /\ UNCHANGED <<keypair, websocket, subs, handlers, wire, signatures, calls, events, prompts, identified, km, lib, api>>

\* agentId resolved; websocket.call('holo/agents/new', { agentId, happId })
HostingRequest(f) ==
  /\ flows[f].pc = "hostEncoding"
  /\ IF AgentIdThrows(flows[f].guard)
     THEN /\ flows' = [flows EXCEPT ![f] = [IdleFlow EXCEPT !.pc = "failed"]]
          /\ UNCHANGED wire
     ELSE LET agentId == ResolvedAgentId(flows[f].guard)
          IN /\ flows' = [flows EXCEPT ![f].pc = "hosting",
                                       ![f].agentId = agentId,
                                       ![f].awaits = SetToBag({AgentsNewMsg(agentId)})]
             /\ wire' = wire (+) SetToBag({AgentsNewMsg(agentId)})
  /\ UNCHANGED <<keypair, websocket, subs, handlers, signatures, calls, events, prompts, identified, km, lib, api>>

\* holo/agents/new returned: startLoginProcess returns true
HostingDone(f) ==
  /\ flows[f].pc = "hosting"
  /\ wire' = wire (-) flows[f].awaits
  /\ flows' = [flows EXCEPT ![f] = [IdleFlow EXCEPT !.pc = "done"]]
  /\ UNCHANGED <<keypair, websocket, subs, handlers, signatures, calls, events, prompts, identified, km, lib, api>>

\* holo/agents/new was rejected: startLoginProcess throws
HostingRejected(f) ==
  /\ flows[f].pc = "hosting"
  /\ wire' = wire (-) flows[f].awaits
  /\ flows' = [flows EXCEPT ![f] = [IdleFlow EXCEPT !.pc = "failed"]]
  /\ UNCHANGED <<keypair, websocket, subs, handlers, signatures, calls, events, prompts, identified, km, lib, api>>

(***************************************************************************)
(* An application call: call(...callStringSegments)(params) of the client  *)
(* makeWebClient returns, with the default hooks.                          *)
(***************************************************************************)
\* the client object exists once connect() has resolved
Connected == flows[ConnectFlow].pc = "done"

\* _preCall up to its first await: the guard, then keypair.sign(JSON.stringify(call))
CallStart(c, callString, params) ==
  /\ Connected
  /\ calls[c].pc = "idle"
  /\ c > 1 => calls[c - 1].pc # "idle"
  /\ calls' = [calls EXCEPT ![c] =
       IF PreCallGuard(keypair)
       THEN [IdleCall EXCEPT !.pc = "signing", !.bound = (keypair # Undefined),
                             !.callString = callString, !.params = params,
                             !.signer = keypair]
       ELSE [IdleCall EXCEPT !.pc = "nokeys"]]
  /\ UNCHANGED <<keypair, websocket, subs, handlers, wire, signatures, flows, events, prompts, identified, km, lib, api>>

\* signature and its base64 are there: getCurrentAgentId() up to its await
CallSigned(c) ==
  /\ calls[c].pc = "signing"
  /\ calls' = [calls EXCEPT ![c].pc = "encoding", ![c].guard = AgentIdGuard(keypair)]
  /\ UNCHANGED <<keypair, websocket, subs, handlers, wire, signatures, flows, events, prompts, identified, km, lib, api>>

\* the signature _preCall puts into the envelope
CallSignature(c, agentId) ==
  ToBase64(Sign(KeypairOf(calls[c].signer),
                SignedPayload(calls[c].callString, calls[c].params, agentId, HappId)))

\* agentId resolved: _preCall returns, call(newCallString)(newParams) is sent
CallSend(c) ==
  /\ calls[c].pc = "encoding"
  /\ IF AgentIdThrows(calls[c].guard)
     THEN /\ calls' = [calls EXCEPT ![c] = [IdleCall EXCEPT !.pc = "failed", !.bound = TRUE]]
          /\ UNCHANGED wire
     ELSE LET agentId == ResolvedAgentId(calls[c].guard)
              envelope == Envelope(calls[c].callString, calls[c].params, agentId,
                                   CallSignature(c, agentId))
              method == OuterMethod(calls[c].callString)
          IN /\ calls' = [calls EXCEPT ![c].pc = "sent",
                                       ![c].method = method,
                                       ![c].envelope = envelope]
             /\ wire' = wire (+) SetToBag({HostMsg(method, envelope)})
  /\ UNCHANGED <<keypair, websocket, subs, handlers, signatures, flows, events, prompts, identified, km, lib, api>>

\* the host's response arrives: _postCall(response)
CallReturn(c, response) ==
  /\ calls[c].pc = "sent"
  /\ wire' = wire (-) SetToBag({HostMsg(calls[c].method, calls[c].envelope)})
  /\ prompts' = prompts + PostCallPrompts(response)
  /\ calls' = [calls EXCEPT ![c] =
       [IdleCall EXCEPT !.pc = "done", !.bound = calls[c].bound, !.response = response,
                        !.result = PostCallResult(response)]]
  /\ UNCHANGED <<keypair, websocket, subs, handlers, signatures, flows, events, identified, km, lib, api>>

(***************************************************************************)
(* Sign-events.                                                            *)
(***************************************************************************)
\* the host is serving a holo/call of this agent: while it does, it emits on
\* `agent/${agentId}/sign`
HostServes(agentId) ==
  \E m \in BagToSet(wire) : m.method = HoloCall /\ m.params.agentId = agentId

\* the keypair a sign handler signs with: keypair.sign(entry)
HandlerKeypair(name) == keypair

\* wss.emit(name, {entry, id: callbackId++}) reaches the channel: every listener
\* registered for the event name runs up to its first await
HostPush(e, name, entry) ==
  /\ events[e].pc = "idle"
  /\ e > 1 => events[e - 1].pc # "idle"
  /\ name \in subs
  /\ HostServes(name.agentId)
  /\ events' = [events EXCEPT ![e] =
       IF HandlerKeypair(name) = Undefined
       THEN [pc |-> "threw", name |-> name, entry |-> entry, id |-> e - 1,
             signer |-> Undefined, pending |-> 0]
       ELSE [pc |-> "delivered", name |-> name, entry |-> entry, id |-> e - 1,
             signer |-> HandlerKeypair(name), pending |-> CopiesIn(name, handlers)]]
  /\ UNCHANGED <<keypair, websocket, subs, handlers, wire, signatures, flows, calls, prompts, identified, km, lib, api>>

\* one listener's signature is there: websocket.call('holo/clientSignature', ...)
EventReply(e) ==
  /\ events[e].pc = "delivered"
  /\ events[e].pending > 0
  /\ signatures' = signatures (+)
       SetToBag({ClientSignatureMsg(events[e].signer, events[e].entry, events[e].id)})
  /\ events' = [events EXCEPT ![e].pending = @ - 1]
  /\ UNCHANGED <<keypair, websocket, subs, handlers, wire, flows, calls, prompts, identified, km, lib, api>>

(***************************************************************************)
(* Specification.                                                          *)
(***************************************************************************)
Next ==
  \/ Connect
  \/ ConnectBind
  \/ \E f \in LoginIds, n \in BOOLEAN, k \in LoginKeys : LoginStart(f, n, k)
  \/ \E f \in LoginIds, kp \in LoginKeys \cup {Undefined} : LoginBind(f, kp)
  \/ \E f \in FlowIds : BindIdentify(f)
  \/ \E f \in FlowIds : BindSubscribe(f)
  \/ \E f \in FlowIds : BindRejected(f)
  \/ \E f \in LoginIds : HostingStart(f)
  \/ \E f \in LoginIds : HostingRequest(f)
  \/ \E f \in LoginIds : HostingDone(f)
  \/ \E f \in LoginIds : HostingRejected(f)
  \/ \E c \in CallIds, s \in CallStrings, p \in ParamSets : CallStart(c, s, p)
  \/ \E c \in CallIds : CallSigned(c)
  \/ \E c \in CallIds : CallSend(c)
  \/ \E c \in CallIds, r \in Responses : CallReturn(c, r)
  \/ \E e \in EventIds, name \in EventNames, entry \in Entries : HostPush(e, name, entry)
  \/ \E e \in EventIds : EventReply(e)

Spec == Init /\ [][Next]_vars

(***************************************************************************)
(* Key management on its own: the operations of keyManagement.ts applied   *)
(* to entropies, passwords and answers of the salt service.                *)
(***************************************************************************)
session ==
  <<keypair, websocket, subs, handlers, wire, signatures, flows, calls, events, prompts,
    identified>>

\* the bytes the arrays are made of
ByteSamples == {0, 1, 255}
\* a 32-byte array of two alternating bytes
Fill(x, y) == [i \in 1..EntropyBytes |-> IF (i % 2) = 1 THEN x ELSE y]
\* what the entropy sources deliver
Entropies == {Fill(x, y) : x, y \in ByteSamples}
\* byte arrays of other lengths
OtherArrays == {<<>>, SubSeq(Fill(255, 1), 1, EntropyBytes - 1), Fill(1, 255) \o <<7>>}
ByteArrays == Entropies \cup OtherArrays

InitKeys ==
  /\ SessionInit
  /\ km \in {IdleKeys(a, b) : a, b \in ByteArrays}
  /\ lib = IdleLib
  /\ api = IdleApi

\* a request as fetch sends it: to saltmineUrl as it is at that moment
Fetch(url, msg) == [url |-> url, msg |-> msg]

\* XorUint8Array(a, b)
Combine ==
  /\ km.ops < MaxKeyOps
  /\ km' = [km EXCEPT !.ops = @ + 1,
                      !.last = [NoLast EXCEPT !.op = "combine",
                                              !.outcome = XorOutcome(km.a, km.b),
                                              !.value = XorUint8Array(km.a, km.b)]]
  /\ UNCHANGED <<session, lib, api>>

\* an entropy generator that is called once and whose answer is kept
EntropyCallCached(n) == IF n = 0 THEN 1 ELSE n
\* await remoteEntropyGenerator() / await localEntropyGenerator(): one more
\* call of the generator
EntropyCall(n) == n + 1

\* generateReadonlyKeypair(remoteEntropyGenerator, localEntropyGenerator); the
\* generators deliver a and b
GenerateReadonly ==
  /\ km.ops < MaxKeyOps
  /\ Len(km.a) = EntropyBytes /\ Len(km.b) = EntropyBytes
  /\ LET seed == XorUint8Array(km.a, km.b)
     IN km' = [km EXCEPT
          !.ops = @ + 1,
          !.remoteCalls = EntropyCall(@),
          !.localCalls = EntropyCall(@),
          !.last = [NoLast EXCEPT !.op = "readonly", !.outcome = "returned",
                                  !.hasKeypair = TRUE, !.keypair = KeypairOf(seed),
                                  !.value = seed,
                                  !.requests = << Fetch(km.saltmineUrl, EntropyRequest) >>]]
  /\ UNCHANGED <<session, lib, api>>

\* what the salt service does with a registration: it stores the salt and
\* echoes it, it stores the salt and its answer does not arrive, or it is
\* not reached
Registrations == {"echoed", "lost", "unreachable"}

\* generateNewReadwriteKeypair(email, password) with the default callbacks;
\* a is the remote entropy, b the local one
GenerateNew(password, registration) ==
  /\ km.ops < MaxKeyOps
  /\ Len(km.a) = EntropyBytes /\ Len(km.b) = EntropyBytes
  /\ LET saltBytes == XorUint8Array(km.a, km.b)
         saltString == EncodeBase64(saltBytes)
         registeredSalt == IF registration = "echoed"
                           THEN SaltFromResponse(saltString)
                           ELSE UnregisteredSalt(saltBytes, saltString)
         hash == PwHash(password, Slice(registeredSalt, SaltSliceLen))
         stored == registration \in {"echoed", "lost"}
     IN km' = [km EXCEPT
          !.ops = @ + 1,
          !.remoteCalls = EntropyCall(@),
          !.localCalls = EntropyCall(@),
          !.store = IF stored THEN [present |-> TRUE, text |-> saltString] ELSE @,
          !.registered = IF stored
                         THEN [present |-> TRUE, password |-> password,
                               keypair |-> KeypairOf(hash)]
                         ELSE @,
          !.last = [ op |-> "new", outcome |-> "returned", password |-> password,
                     service |-> registration, hasKeypair |-> TRUE,
                     keypair |-> KeypairOf(hash), value |-> saltBytes,
                     requests |-> << Fetch(km.saltmineUrl, EntropyRequest),
                                     Fetch(km.saltmineUrl,
                                           RegisterSaltRequest(Email, saltString)) >> ]]
  /\ UNCHANGED <<session, lib, api>>

\* what getRegisteredSaltCallback does: it resolves to the registered salt, it
\* resolves to nothing, or it rejects
Lookups == {"found", "nothing", "threw"}

\* callSaltmine('GET', { email }): saltmineUrl + '?' + email + '=' + params[email]
QueryUrl(url, email) == Append(url, <<email, UndefVal>>)

\* regenerateReadwriteKeypair: without a salt it falls through the if, or
\* returns console.error(...) from the catch; either way it resolves
RegenerateOutcome(lookup) == "returned"

\* regenerateReadwriteKeypair(email, password)
Regenerate(password, lookup) ==
  /\ km.ops < MaxKeyOps
  /\ lookup = "found" => km.store.present
  /\ LET url == QueryUrl(km.saltmineUrl, Email)
         registeredSalt == SaltFromResponse(km.store.text)
         hash == PwHash(password, Slice(registeredSalt, SaltSliceLen))
     IN km' = [km EXCEPT
          !.ops = @ + 1,
          !.saltmineUrl = url,
          !.last = [ op |-> "regen", outcome |-> RegenerateOutcome(lookup),
                     password |-> password, service |-> lookup,
                     hasKeypair |-> (lookup = "found"),
                     keypair |-> IF lookup = "found" THEN KeypairOf(hash) ELSE NoKeypair,
                     value |-> IF lookup = "found" THEN registeredSalt ELSE <<>>,
                     requests |-> << Fetch(url, RegisteredSaltRequest(Email)) >> ]]
  /\ UNCHANGED <<session, lib, api>>

NextKeys ==
  \/ Combine
  \/ GenerateReadonly
  \/ \E password \in Passwords, registration \in Registrations :
       GenerateNew(password, registration)
  \/ \E password \in Passwords, lookup \in Lookups : Regenerate(password, lookup)

SpecKeys == InitKeys /\ [][NextKeys]_vars

(***************************************************************************)
(* Keypair of dpki-ultralite: its operations on keypairs derived from a    *)
(* few seeds.  encrypt is cut at its promise callbacks, which the engine   *)
(* runs one at a time in the order they were queued.                       *)
(***************************************************************************)
\* the recipients of one encryption at most
MaxRecipients == 3
\* the random draws of one run at most
MaxDraws == 5

\* 32-byte seeds, one more than an encryption has recipients
SeedIds == 1..(MaxRecipients + 1)
SeedOf(b) == [i \in 1..EntropyBytes |-> (b * i) % 256]
Seeds == {SeedOf(b) : b \in SeedIds}
\* the keypairs with their private halves, and all keypairs
FullKeypairs == {NewFromSeed(seed) : seed \in Seeds}
Keypairs == FullKeypairs \cup {PublicOnly(kp) : kp \in FullKeypairs}
\* the data signed and encrypted: "hi" and "bye"
Data == {<<104, 105>>, <<98, 121, 101>>}
\* the hints of a bundle
Hints == {"", "my key"}
\* the identity string of the keypair of each seed
IdOfSeed == [b \in SeedIds |-> NewFromSeed(SeedOf(b)).pubkeys]
\* the keypairs that encrypt
Senders == {NewFromSeed(SeedOf(b)) : b \in 1..2}
\* the signatures handed to verify: the one sign made, that one with a byte
\* altered, the signer's signature of other data, another keypair's signature
SignatureKinds == {"made", "altered", "otherData", "otherSigner"}
SignatureOf(kind, made) ==
  CASE kind = "made" -> made.value
    [] kind = "altered" -> [made.value EXCEPT !.intact = FALSE]
    [] kind = "otherData" ->
         CryptoSignDetached(CHOOSE d \in Data : d # made.data, made.keypair.signPriv)
    [] kind = "otherSigner" ->
         CryptoSignDetached(made.data,
           (CHOOSE kp \in FullKeypairs : kp.pubkeys # made.keypair.pubkeys).signPriv)
\* the recipient lists: sequences of distinct seeds, the first seed in none
RecipientLists ==
  {r \in UNION {[1..n -> SeedIds \ {1}] : n \in 0..MaxRecipients} :
     \A i, j \in DOMAIN r : i # j => r[i] # r[j]}
\* a bundle whose ciphertext was altered after getBundle made it
TamperBundle(bundle) ==
  [bundle EXCEPT !.data =
     MsgpackEncode([MsgpackDecode(@) EXCEPT !.cipher.intact = FALSE])]

InitLib ==
  /\ SessionInit
  /\ km = IdleKeys(<<>>, <<>>)
  /\ lib = IdleLib
  /\ api = IdleApi

\* a library whose callbacks do not wait for readiness
ReadyGateOpen(ready) == TRUE
\* _sodium.ready.then(callback): the callback runs once the library's
\* readiness has resolved
ReadyGate(ready) == ready

\* the promise _sodium.ready resolves, once
SodiumReady ==
  /\ ~lib.ready
  /\ lib' = [lib EXCEPT !.ready = TRUE]
  /\ UNCHANGED <<session, km, api>>

\* no promise callback of an encryption is waiting to run
Drained == lib.task.queue = <<>>

\* Keypair.newFromSeed(seed); `before` is the derivation that ran just before
\* this one, if one did
LibNewFromSeed(seed) ==
  /\ Drained
  /\ ReadyGate(lib.ready)
  /\ lib' = [lib EXCEPT
       !.held = NoArtifact,
       !.last = [op |-> "newFromSeed", outcome |-> "resolved", seed |-> seed,
                 keypair |-> NewFromSeed(seed),
                 before |-> IF lib.last.op = "newFromSeed"
                            THEN [present |-> TRUE, seed |-> lib.last.seed,
                                  keypair |-> lib.last.keypair]
                            ELSE [present |-> FALSE]]]
  /\ UNCHANGED <<session, km, api>>

\* kp.sign(data)
LibSign(kp, data) ==
  /\ Drained
  /\ SignGuard(kp) => ReadyGate(lib.ready)
  /\ IF SignGuard(kp)
     THEN LET signature == CryptoSignDetached(data, kp.signPriv)
          IN lib' = [lib EXCEPT
               !.held = [kind |-> "signature", keypair |-> kp, data |-> data,
                         value |-> signature],
               !.last = [op |-> "sign", outcome |-> "resolved", error |-> "",
                         keypair |-> kp, data |-> data, value |-> signature]]
     ELSE lib' = [lib EXCEPT
               !.held = NoArtifact,
               !.last = [op |-> "sign", outcome |-> "threw", error |-> NoSignPriv,
                         keypair |-> kp, data |-> data, value |-> NoArtifact]]
  /\ UNCHANGED <<session, km, api>>

\* kp.verify(signature, data), once a signature has been made
LibVerify(kp, kind, data) ==
  /\ Drained
  /\ ReadyGate(lib.ready)
  /\ lib.held.kind = "signature"
  /\ LET signature == SignatureOf(kind, lib.held)
     IN lib' = [lib EXCEPT
          !.last = [op |-> "verify", outcome |-> "resolved", keypair |-> kp,
                    signature |-> signature, data |-> data,
                    value |-> UtilVerify(signature, data, kp.pubkeys)]]
  /\ UNCHANGED <<session, km, api>>

\* the callback that runs next: the one queued first
NextTaskLast(queue) == Len(queue)
NextTask(queue) == 1
\* the queue without the callback that ran
Dequeue(queue) ==
  LET k == NextTask(queue)
  IN SubSeq(queue, 1, k - 1) \o SubSeq(queue, k + 1, Len(queue))
\* the callback that runs next is of this step
Runs(step) == /\ lib.task.queue # <<>>
              /\ lib.task.queue[NextTask(lib.task.queue)].step = step
Running == lib.task.queue[NextTask(lib.task.queue)]

\* kp.encrypt(recipientIds, data) up to the end of the loop over _loop(i):
\* symSecret is drawn and decodeId(recipientIds[i]) is called for every i;
\* without a recipient no callback is queued
EncryptStart(kp, recipients, data) ==
  /\ Drained
  /\ ReadyGate(lib.ready)
  /\ lib.draws + Len(recipients) + 2 <= MaxDraws
  /\ lib' = [lib EXCEPT
       !.draws = @ + 1,
       !.held = NoArtifact,
       !.last = [op |-> "encrypt", outcome |-> "pending"],
       !.task = IF recipients = <<>> THEN NoTask
                ELSE
                [ keypair |-> kp,
                  recipientIds |-> [i \in 1..Len(recipients) |-> IdOfSeed[recipients[i]]],
                  data |-> data,
                  symSecret |-> RandomBytesBuf(lib.draws, SymSecretBytes),
                  queue |-> [i \in 1..Len(recipients) |->
                               [step |-> "decodeId", i |-> i - 1, arg |-> <<>>]],
                  out |-> <<>> ]]
  /\ UNCHANGED <<session, km, api>>

\* the callback of _sodium.ready.then in decodeId(recipientIds[i])
DecodeIdTask ==
  /\ Runs("decodeId")
  /\ ReadyGate(lib.ready)
  /\ lib' = [lib EXCEPT !.task.queue =
       Append(Dequeue(@), [step |-> "encPub", i |-> Running.i,
                           arg |-> DecodeId(lib.task.recipientIds[Running.i + 1])])]
  /\ UNCHANGED <<session, km, api>>

\* function (key) { return key.encPub }
EncPubTask ==
  /\ Runs("encPub")
  /\ lib' = [lib EXCEPT !.task.queue =
       Append(Dequeue(@), [step |-> "wrap", i |-> Running.i, arg |-> Running.arg.encPub])]
  /\ UNCHANGED <<session, km, api>>

\* function (recipPub): the secret wrapped for recipient i is pushed, and
\* i === recipientIds.length - 1 resolves the promise the last callback waits for
WrapTask ==
  /\ Runs("wrap")
  /\ ReadyGate(lib.ready)
  /\ LET task == lib.task
         tx == CryptoKxServerSessionKeys(task.keypair.encPub, task.keypair.encPriv,
                                         Running.arg).sharedTx
         nonce == RandomBytesBuf(lib.draws, NonceBytes)
         cipher == AeadEncrypt(task.symSecret, nonce, tx)
         rest == Dequeue(task.queue)
     IN lib' = [lib EXCEPT
          !.draws = @ + 1,
          !.task.out = @ \o <<nonce, cipher>>,
          !.task.queue = IF Running.i = Len(task.recipientIds) - 1
                         THEN Append(rest, [step |-> "finish", i |-> Running.i, arg |-> <<>>])
                         ELSE rest]
  /\ UNCHANGED <<session, km, api>>

\* function (r): the payload is pushed and encrypt resolves with
\* msgpack.encode(out)
FinishTask ==
  /\ Runs("finish")
  /\ ReadyGate(lib.ready)
  /\ LET task == lib.task
         nonce == RandomBytesBuf(lib.draws, NonceBytes)
         cipher == AeadEncrypt(task.data, nonce, task.symSecret)
         out == task.out \o <<nonce, cipher>>
         rest == Dequeue(task.queue)
     IN lib' = [lib EXCEPT
          !.draws = @ + 1,
          !.held = [kind |-> "ciphertext", keypair |-> task.keypair,
                    recipientIds |-> task.recipientIds, data |-> task.data,
                    value |-> MsgpackEncode(out)],
          !.last = [op |-> "encrypt", outcome |-> "resolved"],
          !.task = IF rest = <<>> THEN NoTask
                   ELSE [task EXCEPT !.queue = rest, !.out = out]]
  /\ UNCHANGED <<session, km, api>>

\* kp.decrypt(sId, cipher) on the ciphertext encrypt resolved with
LibDecrypt(kp) ==
  /\ Drained
  /\ ReadyGate(lib.ready)
  /\ lib.held.kind = "ciphertext"
  /\ LET result == Decrypt(kp, lib.held.keypair.pubkeys, lib.held.value)
     IN lib' = [lib EXCEPT
          !.last = [op |-> "decrypt", outcome |-> result.outcome, error |-> result.error,
                    keypair |-> kp, value |-> result.value]]
  /\ UNCHANGED <<session, km, api>>

\* the functions of util called on their own
UtilNames == {"randomBytes", "pwHash", "toBase64", "fromBase64"}
\* util.randomBytes(32), util.pwHash(pass), util.toBase64(buffer),
\* util.fromBase64(str)
LibUtil(fn, passphrase, data) ==
  /\ Drained
  /\ ReadyGate(lib.ready)
  /\ lib.draws + 1 <= MaxDraws
  /\ lib' = [lib EXCEPT
       !.draws = IF fn \in {"randomBytes", "pwHash"} THEN @ + 1 ELSE @,
       !.held = NoArtifact,
       !.last = [op |-> fn, outcome |-> "resolved",
                 value |-> CASE fn = "randomBytes" -> RandomBytesBuf(lib.draws, SymSecretBytes)
                             [] fn = "pwHash" ->
                                  [salt |-> RandomBytesBuf(lib.draws, SaltBytes),
                                   hash |-> PwHash(passphrase, RandomBytesBuf(lib.draws, SaltBytes))]
                             [] fn = "toBase64" -> EncodeBase64(data)
                             [] fn = "fromBase64" -> DecodeBase64(EncodeBase64(data))]]
  /\ UNCHANGED <<session, km, api>>

\* kp.getBundle(passphrase, hint)
LibGetBundle(kp, passphrase, hint) ==
  /\ Drained
  /\ ReadyGate(lib.ready)
  /\ lib.draws + 2 <= MaxDraws
  /\ LET bundle == GetBundle(kp, passphrase, hint, lib.draws)
     IN lib' = [lib EXCEPT
          !.draws = @ + 2,
          !.held = [kind |-> "bundle", keypair |-> kp, passphrase |-> passphrase,
                    hint |-> hint, value |-> bundle],
          !.last = [op |-> "getBundle", outcome |-> "resolved", value |-> bundle]]
  /\ UNCHANGED <<session, km, api>>

\* Keypair.fromBundle(bundle, passphrase) on the bundle getBundle resolved
\* with, as it is or altered
LibFromBundle(passphrase, tampered) ==
  /\ Drained
  /\ ReadyGate(lib.ready)
  /\ lib.held.kind = "bundle"
  /\ LET bundle == IF tampered THEN TamperBundle(lib.held.value) ELSE lib.held.value
         result == FromBundle(bundle, passphrase)
     IN lib' = [lib EXCEPT
          !.last = [op |-> "fromBundle", outcome |-> result.outcome,
                    passphrase |-> passphrase, tampered |-> tampered,
                    keypair |-> result.keypair]]
  /\ UNCHANGED <<session, km, api>>

NextLib ==
  \/ SodiumReady
  \/ \E seed \in Seeds : LibNewFromSeed(seed)
  \/ \E kp \in Keypairs, data \in Data : LibSign(kp, data)
  \/ \E kp \in Keypairs, kind \in SignatureKinds, data \in Data :
       LibVerify(kp, kind, data)
  \/ \E kp \in Senders, recipients \in RecipientLists, data \in Data :
       EncryptStart(kp, recipients, data)
  \/ DecodeIdTask
  \/ EncPubTask
  \/ WrapTask
  \/ FinishTask
  \/ \E kp \in Keypairs : LibDecrypt(kp)
  \/ \E kp \in Keypairs, passphrase \in Passwords, hint \in Hints :
       LibGetBundle(kp, passphrase, hint)
  \/ \E passphrase \in Passwords, tampered \in BOOLEAN : LibFromBundle(passphrase, tampered)
  \/ \E fn \in UtilNames, passphrase \in Passwords, data \in Data :
       LibUtil(fn, passphrase, data)

SpecLib == InitLib /\ [][NextLib]_vars

\* Keypair.encrypt on its own: calls of encrypt and the promise reactions they
\* queue; the library becomes ready and, once queued, the microtask loop runs
\* each reaction
NextEncrypt ==
  \/ SodiumReady
  \/ \E kp \in Senders, recipients \in RecipientLists, data \in Data :
       EncryptStart(kp, recipients, data)
  \/ DecodeIdTask
  \/ EncPubTask
  \/ WrapTask
  \/ FinishTask

\* WF_vars(DecodeIdTask) with its ENABLED written out: the callback of
\* decodeId can run exactly when it is the next one in the queue
FairDecodeIdTask == []<>~Runs("decodeId") \/ []<><<DecodeIdTask>>_vars

SpecEncrypt ==
  /\ InitLib
  /\ [][NextEncrypt]_vars
  /\ WF_vars(SodiumReady)
  /\ FairDecodeIdTask
  /\ WF_vars(EncPubTask)
  /\ WF_vars(WrapTask)
  /\ WF_vars(FinishTask)

(***************************************************************************)
(* The three forms of a zome call: call(a, z, f)(p), call('a/z/f')(p) and  *)
(* callZome(a, z, f)(p) of the client connect() resolves with, under one   *)
(* bound keypair.  Strings are sequences of characters here, so that join  *)
(* and split are the computations the code runs.                           *)
(***************************************************************************)
\* the names the application passes for instance, zome and function
Names == {<<"i">>, <<"z", "f">>, <<>>, <<"x", "/", "y">>}
SlashFree(text) == \A i \in DOMAIN text : text[i] # "/"

RECURSIVE JoinSlash(_)
\* segments.join('/')
JoinSlash(segments) ==
  IF segments = <<>> THEN <<>>
  ELSE IF Len(segments) = 1 THEN segments[1]
  ELSE segments[1] \o <<"/">> \o JoinSlash(Tail(segments))

RECURSIVE SplitSlash(_)
\* callString.split('/')
SplitSlash(text) ==
  IF SlashFree(text) THEN <<text>>
  ELSE LET first == CHOOSE i \in DOMAIN text :
                      text[i] = "/" /\ SlashFree(SubSeq(text, 1, i - 1))
       IN <<SubSeq(text, 1, first - 1)>> \o SplitSlash(SubSeq(text, first + 1, Len(text)))

\* call: callStringSegments.length === 1 ? callStringSegments[0]
\*                                       : callStringSegments.join('/')
CallForm(callStringSegments) ==
  IF Len(callStringSegments) = 1 THEN callStringSegments[1]
  ELSE JoinSlash(callStringSegments)

\* the one string 'a/z/f' as the application writes it
OneString(instanceId, zome, func) == instanceId \o <<"/">> \o zome \o <<"/">> \o func

\* a callZome that puts the zome first
CallZomeFormSwapped(instanceId, zome, func) == JoinSlash(<<zome, instanceId, func>>)
\* callZome: [_instanceId, zome, func].join('/')
CallZomeForm(instanceId, zome, func) == JoinSlash(<<instanceId, zome, func>>)

\* _preCall(callString, params) under the bound keypair k, and what
\* call(newCallString)(newParams) then sends; `signed` is the string
\* keypair.sign was given
PreCall(k, callString, params) ==
  LET agentId == AgentIdEncode(k)
      signed == SignedPayload(callString, params, agentId, HappId)
      signature == ToBase64(Sign(KeypairOf(k), signed))
  IN [ method |-> OuterMethod(callString),
       params |-> Envelope(SplitSlash(callString), params, agentId, signature),
       signed |-> signed ]

\* the application settles on a keypair, three names and the params
ApiPick(k, instanceId, zome, func, params) ==
  /\ ~api.picked
  /\ api' = [IdleApi EXCEPT !.picked = TRUE, !.key = k, !.instanceId = instanceId,
                            !.zome = zome, !.func = func, !.params = params]
  /\ UNCHANGED <<session, km, lib>>

\* what a form makes of the names
CallStringOf(form) ==
  CASE form = "call" -> CallForm(<<api.instanceId, api.zome, api.func>>)
    [] form = "callString" -> CallForm(<<OneString(api.instanceId, api.zome, api.func)>>)
    [] form = "callZome" -> CallZomeForm(api.instanceId, api.zome, api.func)

\* the call is made in one of its forms
ApiSend(form) ==
  /\ api.picked
  /\ api.sent[form] = <<>>
  /\ api' = [api EXCEPT !.sent[form] = <<PreCall(api.key, CallStringOf(form), api.params)>>]
  /\ UNCHANGED <<session, km, lib>>

NextForms ==
  \/ \E k \in Keys, instanceId \in Names, zome \in Names, func \in Names,
        params \in ParamSets : ApiPick(k, instanceId, zome, func, params)
  \/ \E form \in Forms : ApiSend(form)

SpecForms == Init /\ [][NextForms]_vars

(***************************************************************************)
(* Properties of the signing wormhole.                                     *)
(***************************************************************************)
\* how many holo/clientSignature calls carried this request id
SignatureCount(id) ==
  LET with == {m \in BagToSet(signatures) : m.params.requestId = id}
  IN BagCardinality([m \in with |-> CopiesIn(m, signatures)])

\* the key whose identity an event name is made of
NameKey(name) == name.agentId.key

\* no sendClientSignature has thrown
AllBindsSucceeded == \A f \in FlowIds : flows[f].pc \notin {"failed", "nochannel"}

\* no sendClientSignature is between its first and its last statement
NoBindInFlight == \A f \in FlowIds : flows[f].pc \notin {"encoding", "identify"}

\* C1: after successful binds only, a sign-event pushed on the event name of
\* the bound identity is answered by exactly one holo/clientSignature call
\* with its request id: never more than one, and one once its handlers are through.
C1_ExactlyOneSignaturePerEvent ==
  \A e \in EventIds :
    ( /\ events[e].pc = "delivered"
      /\ AllBindsSucceeded
      /\ events[e].name = EventName(AgentIdEncode(events[e].signer)) )
    => /\ SignatureCount(events[e].id) <= 1
       /\ events[e].pending = 0 => SignatureCount(events[e].id) = 1

\* C2: every holo/clientSignature call answers an event received on
\* agent/<I>/sign with a signature over that event's entry made by the keypair
\* whose identity is I.
C2_SignedByIdentityOfEventName ==
  \A m \in BagToSet(signatures) :
    \E e \in EventIds :
      /\ events[e].pc = "delivered"
      /\ events[e].id = m.params.requestId
      /\ m.params.signature =
           ToBase64(Sign(KeypairOf(NameKey(events[e].name)), events[e].entry))

\* C3: whenever a _preCall signs, the channel is subscribed to the event name
\* of the keypair it signs with and to no other: the subscription of the
\* previous identity is gone and the new one is there.
C3_CallSignsAfterResubscribe ==
  [][ \A c \in CallIds :
        (calls[c].pc = "idle" /\ calls'[c].pc = "signing")
        => subs = {EventName(AgentIdEncode(keypair))} ]_vars

\* C4: outside a bind in flight, every event name has at most one listener
\* and the channel holds a single subscribed event name, that of the bound
\* keypair's identity.
C4_SingleSubscription ==
  NoBindInFlight =>
    /\ \A name \in subs : CopiesIn(name, handlers) <= 1
    /\ Cardinality(subs) <= 1
    /\ (keypair # Undefined /\ subs # {}) => subs = {EventName(AgentIdEncode(keypair))}

\* C5: the holo/clientSignature call with request id id_k carries a signature
\* over the entry e_k of the event that came with id_k, however the handlers
\* of the events in flight interleave.
C5_SignatureOverOwnEntry ==
  \A m \in BagToSet(signatures) :
    \E e \in EventIds :
      /\ events[e].pc = "delivered"
      /\ events[e].id = m.params.requestId
      /\ \E k \in Keys :
           m.params.signature = ToBase64(Sign(KeypairOf(k), events[e].entry))

\* two events with different entries overlap, and the later one is answered first
C5_Witness ==
  \E e1, e2 \in EventIds :
    /\ e1 < e2
    /\ events[e1].pc = "delivered" /\ events[e2].pc = "delivered"
    /\ events[e1].entry # events[e2].entry
    /\ events[e1].pending > 0 /\ SignatureCount(events[e1].id) = 0
    /\ SignatureCount(events[e2].id) > 0

(***************************************************************************)
(* Properties of binding.                                                  *)
(***************************************************************************)
\* the flow is about to call sendClientSignature(kp)
BeforeBind(f) == flows[f].pc \in {"generating", "registering", "regenerating"}

\* the holo/identify requests not yet answered
IdentifiesOnWire == {m \in BagToSet(wire) : m.method = HoloIdentify}
IdentifyCount == BagCardinality([m \in IdentifiesOnWire |-> CopiesIn(m, wire)])

\* C11: a sendClientSignature that finds no channel open throws 'Could not
\* register callback as no valid websocket instance found': it identifies
\* nothing, subscribes to nothing, registers no handler, and its flow ends there.
C11_BindWithoutChannelFails ==
  [][ \A f \in FlowIds :
        /\ (BeforeBind(f) /\ ~BeforeBind(f)' /\ ~websocket)
           => /\ flows'[f].pc = "nochannel"
              /\ subs' = subs /\ handlers' = handlers /\ identified' = identified
              /\ IdentifyCount' = IdentifyCount
        /\ flows[f].pc = "nochannel" => flows'[f].pc = "nochannel" ]_vars

\* a login started before connect() has ended with no channel
C11_Witness == \E f \in LoginIds : flows[f].pc = "nochannel" /\ ~websocket

\* C12: a keypair is set only if the channel is set, and a bind that fails for
\* want of a channel leaves the keypair variable as it was.
C12_KeypairOnlyWithChannel ==
  [][ /\ keypair' # Undefined => websocket'
      /\ \A f \in FlowIds :
           (flows[f].pc # "nochannel" /\ flows'[f].pc = "nochannel")
           => keypair' = keypair ]_vars

\* C13: when no bind is in flight and a keypair is bound, holo/identify has
\* been sent for its agent id and the channel is subscribed to
\* agent/<that agent id>/sign.
C13_BoundMeansIdentifiedAndSubscribed ==
  (NoBindInFlight /\ keypair # Undefined)
  => /\ AgentIdEncode(keypair) \in identified
     /\ EventName(AgentIdEncode(keypair)) \in subs

\* C14: a bind sends one holo/identify and no more; when that call is
\* rejected the bind is over: nothing is subscribed, no handler is registered,
\* no further holo/identify is sent, and the flow stays failed.
C14_NoAutomaticRetry ==
  [][ \A f \in FlowIds :
        /\ (flows[f].pc = "encoding" /\ flows'[f].pc = "identify")
           => IdentifyCount' = IdentifyCount + 1
        /\ flows[f].pc = "identify"
           => flows'[f].pc \in {"identify", "failed", "done", "bound"}
        /\ (flows[f].pc = "identify" /\ flows'[f].pc = "failed")
           => /\ subs' = subs /\ handlers' = handlers /\ identified' = identified
              /\ IdentifyCount' = IdentifyCount - 1
        /\ flows[f].pc = "failed" => flows'[f].pc = "failed"
        /\ IdentifyCount' = Cardinality({g \in FlowIds : flows'[g].pc = "identify"}) ]_vars

\* the holo/identify of connect's bind was rejected: no login has run, so
\* nothing else can have failed it
C14_Witness ==
  /\ flows[ConnectFlow].pc = "failed"
  /\ \A f \in LoginIds : flows[f].pc = "idle"
  /\ identified = {AgentIdEncode(ReadonlyKey)}
  /\ subs = {} /\ handlers = EmptyBag /\ IdentifyCount = 0

\* C15: once a keypair is bound, a keypair stays bound whatever happens next.
C15_NeverBackToAnonymous ==
  [][ keypair # Undefined => keypair' # Undefined ]_vars

(***************************************************************************)
(* Properties of what is sent.                                             *)
(***************************************************************************)
SecretKinds == {"seed", "signPriv", "encPriv"}

\* the value is key material, or an encoding of key material
Reveals(v) == v.kind \in SecretKinds \/ (v.data # <<>> /\ v.data[1] \in SecretKinds)

\* the values a request carries, but for the args of a holo/call, which are the
\* application's, and the request id, which is the host's
Carried(m) ==
  CASE m.method = HoloCall ->
         {m.params.agentId, m.params.happId, m.params.instanceId, m.params.zome,
          m.params.function, m.params.signature}
    [] m.method = HoloClientSignature -> {m.params.signature}
    [] OTHER -> {m.params[field] : field \in DOMAIN m.params}

\* C6: no request to the host or to the salt service, and no
\* holo/clientSignature call, carries a seed, a signPriv or an encPriv.
C6_NoKeyMaterialOnTheWire ==
  \A m \in BagToSet(wire) \cup BagToSet(signatures) : \A v \in Carried(m) : ~Reveals(v)

\* a holo/call, a holo/identify and a salt registration are under way and a
\* signature has been returned
C6_Witness ==
  /\ \E m \in BagToSet(wire) : m.method = HoloCall
  /\ \E m \in BagToSet(wire) : m.method = HoloIdentify
  /\ \E m \in BagToSet(wire) : m.to = "saltmine" /\ m.method = <<"POST">>
  /\ signatures # EmptyBag

\* the holo/call requests on the wire
CallsOnWire ==
  {m \in BagToSet(wire) : m.to = "host" /\ m.method \notin {HoloIdentify, HoloAgentsNew}}

\* C7: a call invoked with no keypair bound is rejected with 'trying to call
\* with no keys' and nothing is sent for it: the requests on the wire are
\* those of the calls that passed _preCall.
C7_NoKeysNoCall ==
  /\ \A c \in CallIds :
       (calls[c].pc # "idle" /\ ~calls[c].bound)
       => calls[c].pc = "nokeys" /\ calls[c].envelope = <<>>
  /\ BagCardinality([m \in CallsOnWire |-> CopiesIn(m, wire)])
       = Cardinality({c \in CallIds : calls[c].pc = "sent"})

\* a call has been rejected for want of a keypair
C7_Witness == \E c \in CallIds : calls[c].pc = "nokeys"

\* C8: whatever the call string, the request _preCall leads to is a
\* holo/call; the segments of the call string are in the envelope.
C8_OuterMethodIsHoloCall ==
  \A c \in CallIds :
    calls[c].pc = "sent" =>
      /\ calls[c].method = HoloCall
      /\ HostMsg(HoloCall, calls[c].envelope) \in BagToSet(wire)
      /\ calls[c].envelope.instanceId = Segment(calls[c].callString, 1)
      /\ calls[c].envelope.zome = Segment(calls[c].callString, 2)
      /\ calls[c].envelope.function = Segment(calls[c].callString, 3)
      /\ calls[c].envelope.args = calls[c].params

\* a call of three segments and a call of one segment have been sent
C8_Witness ==
  \E c \in CallIds :
    /\ calls[c].pc = "sent"
    /\ calls[c].callString = <<"inst", "zome", "fn">>
    /\ calls[c].params # <<>>

Unauthorized ==
  {c \in CallIds : calls[c].pc = "done" /\ calls[c].response = "{Err:{code:401}}"}

\* C10: _postCall returns the response it was given, and triggerLoginPrompt
\* has been called once for each {Err: {code: 401}} response.
C10_PostCallPromptsOnceAndReturns ==
  /\ \A c \in CallIds :
       calls[c].pc = "done" => calls[c].result = [form |-> "text", body |-> calls[c].response]
  /\ \A c \in Unauthorized : prompts >= 1
  /\ prompts <= Cardinality(Unauthorized)

\* a call has come back with {Err: {code: 401}}
C10_Witness == Unauthorized # {} /\ prompts = 1

(***************************************************************************)
(* Properties of key management.                                           *)
(***************************************************************************)
\* C16: regenerateReadwriteKeypair fails with an error when no salt is found
\* for the email, and never completes normally without a keypair.
C16_RegenerateFailsWithoutSalt ==
  km.last.op = "regen" =>
    /\ km.last.service # "found" => km.last.outcome = "threw"
    /\ km.last.outcome = "returned" => km.last.hasKeypair

\* C17: when the registration of the salt fails, generateNewReadwriteKeypair
\* still returns a keypair, and it is the keypair it returns when the
\* registration succeeds and the service echoes the salt.
C17_SoftFailureDerivesAsIfRegistered ==
  (km.last.op = "new" /\ km.last.service # "echoed") =>
    /\ km.last.outcome = "returned" /\ km.last.hasKeypair
    /\ km.last.keypair =
         KeypairOf(PwHash(km.last.password,
                          Slice(SaltFromResponse(EncodeBase64(XorUint8Array(km.a, km.b))),
                                SaltSliceLen)))

\* C18: when the salt service has stored the salt of a registration and
\* returns it, regenerateReadwriteKeypair with the password of the
\* registration yields a keypair of the same identity.
C18_RegenerationMatchesRegistration ==
  ( /\ km.last.op = "regen" /\ km.last.service = "found"
    /\ km.registered.present /\ km.last.password = km.registered.password )
  => /\ km.last.hasKeypair
     /\ km.last.keypair.pubkeys = km.registered.keypair.pubkeys

\* C19: for 32-byte a and b, XorUint8Array(XorUint8Array(a, b), b) = a.
C19_XorSelfInverse ==
  ( /\ km.last.op = "combine"
    /\ Len(km.a) = EntropyBytes /\ Len(km.b) = EntropyBytes )
  => XorUint8Array(km.last.value, km.b) = km.a

\* two 32-byte arrays have been combined into a third
C19_Witness ==
  /\ km.last.op = "combine"
  /\ Len(km.a) = EntropyBytes /\ Len(km.b) = EntropyBytes
  /\ km.last.value # km.a /\ km.last.value # km.b /\ km.a # km.b

\* C20: XorUint8Array of arrays of different lengths is a fatal error and
\* returns no result.
C20_MismatchedLengthsAreFatal ==
  (km.last.op = "combine" /\ Len(km.a) # Len(km.b))
  => km.last.outcome = "threw" /\ km.last.value = <<>>

\* C21: generateReadonlyKeypair returns the keypair of the seed
\* XorUint8Array(remote entropy, local entropy), and every derivation calls
\* each of the two generators once more.
C21_ReadonlyFromFreshEntropy ==
  [][ (km'.ops = km.ops + 1 /\ km'.last.op = "readonly")
      => /\ km'.last.hasKeypair
         /\ km'.last.keypair.pubkeys = KeypairOf(XorUint8Array(km.a, km.b)).pubkeys
         /\ km'.remoteCalls = km.remoteCalls + 1
         /\ km'.localCalls = km.localCalls + 1 ]_vars

\* a second readonly keypair has been derived, from entropies that differ
C21_Witness ==
  /\ km.last.op = "readonly" /\ km.remoteCalls = 2 /\ km.localCalls = 2
  /\ km.a # km.b /\ km.last.value # km.a /\ km.last.value # km.b

C23_SignNeedsPrivateKey ==
  (lib.last.op = "sign" /\ lib.last.keypair.signPriv = Absent) =>
    /\ lib.last.outcome = "threw"
    /\ lib.last.error = NoSignPriv
    /\ lib.last.value = NoArtifact
    /\ lib.held = NoArtifact
\* sign has been called on a keypair without signPriv
C23_Witness ==
  /\ lib.last.op = "sign"
  /\ lib.last.keypair.signPriv = Absent
  /\ lib.last.outcome = "threw"

\* C24: decrypt on a keypair without encPriv is rejected with the error of the
\* missing private key: the promise it returned settles with that error.
C24_DecryptRejectsPublicOnly ==
  (lib.last.op = "decrypt" /\ lib.last.keypair.encPriv = Absent) =>
    /\ lib.last.outcome = "rejected"
    /\ lib.last.error # ""

\* C25: for a keypair k with private keys and data d, k.verify(k.sign(d), d) is
\* true; the same signature against other data, and another signature against
\* d, verify false.
C25_SignVerify ==
  (lib.last.op = "verify" /\ lib.held.kind = "signature"
     /\ lib.last.keypair = lib.held.keypair) =>
    LET same == lib.last.signature = lib.held.value
        d == lib.last.data = lib.held.data
    IN /\ (same /\ d) => lib.last.value = TRUE
       /\ (same /\ ~d) => lib.last.value = FALSE
       /\ (~same /\ d) => lib.last.value = FALSE
\* the signer has verified its own signature against the data it signed
C25_Witness ==
  /\ lib.last.op = "verify"
  /\ lib.held.kind = "signature"
  /\ lib.last.keypair = lib.held.keypair
  /\ lib.last.signature = lib.held.value
  /\ lib.last.data = lib.held.data
  /\ lib.last.value = TRUE

C28_BundleRoundTrip ==
  (lib.last.op = "fromBundle" /\ lib.last.passphrase = lib.held.passphrase
     /\ ~lib.last.tampered) =>
    /\ lib.last.outcome = "resolved"
    /\ lib.last.keypair = lib.held.keypair
\* a keypair with its private keys has come back from its bundle
C28_Witness ==
  /\ lib.last.op = "fromBundle"
  /\ lib.last.passphrase = lib.held.passphrase
  /\ ~lib.last.tampered
  /\ lib.last.outcome = "resolved"
  /\ lib.last.keypair.signPriv # Absent
  /\ lib.last.keypair.encPriv # Absent

\* C29: fromBundle with another passphrase, or on an altered bundle, is
\* rejected: it neither resolves nor stays pending.
C29_FromBundleRejects ==
  (lib.last.op = "fromBundle"
     /\ (lib.last.passphrase # lib.held.passphrase \/ lib.last.tampered)) =>
    lib.last.outcome = "rejected"

\* C30, as amended: getBundle resolves with { type: 'hcKeypair', hint, data }
\* where hint is the hint passed in and data is the msgpack encoding of
\* { salt, nonce, cipher }, the salt and the nonce drawn during that call.
C30_BundleShape ==
  [][(lib'.last.op = "getBundle" /\ lib'.draws # lib.draws) =>
       LET bundle == lib'.last.value
           data == MsgpackDecode(bundle.data)
       IN /\ DOMAIN bundle = {"type", "hint", "data"}
          /\ bundle.type = "hcKeypair"
          /\ bundle.hint = lib'.held.hint
          /\ bundle.data.kind = "msgpack"
          /\ DOMAIN data = {"salt", "nonce", "cipher"}
          /\ data.salt = [kind |-> "random", n |-> lib.draws + 1, count |-> SaltBytes]
          /\ data.nonce = [kind |-> "random", n |-> lib.draws + 2, count |-> NonceBytes]
          /\ data.cipher.nonce = data.nonce
          /\ data.cipher.key = PwHash(lib'.held.passphrase, data.salt)]_vars
\* a second bundle has been made
C30_Witness ==
  /\ lib.last.op = "getBundle"
  /\ lib.held.kind = "bundle"
  /\ lib.draws >= 4
  /\ MsgpackDecode(lib.held.value.data).salt.n > 2
\* C30, as stated: the bundle has type "keypair-bundle" and its data is the
\* object { salt, nonce, cipher }.
C30_KeypairBundleType ==
  lib.held.kind = "bundle" =>
    /\ lib.held.value.type = "keypair-bundle"
    /\ DOMAIN lib.held.value.data = {"salt", "nonce", "cipher"}

(***************************************************************************)
(* Properties of the session under concurrent binds, and of the salt       *)
(* service URL.                                                            *)
(***************************************************************************)
\* the signatures a keypair of the session can have made over a payload
SignaturesOver(payload) == {Sign(KeypairOf(k), payload) : k \in Keys}

\* C32: every envelope _preCall returns is self-consistent: its signature
\* verifies under the signing public key that its agentId encodes, also when
\* the bound keypair was replaced while _preCall was suspended.
C32_EnvelopeSelfConsistent ==
  \A c \in CallIds :
    calls[c].pc = "sent" =>
      LET envelope == calls[c].envelope
          payload == SignedPayload(calls[c].callString, calls[c].params,
                                   envelope.agentId, HappId)
      IN \E k \in Keys :
           /\ envelope.agentId = AgentIdEncode(k)
           /\ \E s \in SignaturesOver(payload) :
                /\ ToBase64(s) = envelope.signature
                /\ Verify(s, payload, KeypairOf(k).signPub)

\* C36: callSaltmine leaves saltmineUrl as it was loaded, and every request
\* for remote entropy goes to that bare URL, whatever was called before.
C36_SaltmineUrlUnchanged ==
  /\ km.saltmineUrl = <<>>
  /\ \A i \in DOMAIN km.last.requests :
       km.last.requests[i].msg = EntropyRequest => km.last.requests[i].url = <<>>

\* C33: connect() resolves only after the readonly keypair was bound,
\* holo/identify has returned and the sign-event of the identified agent is
\* subscribed; and no call made through the client it resolves with reaches
\* _preCall while no keypair is bound.
C33_ConnectedMeansBound ==
  /\ Connected => \E agentId \in identified : EventName(agentId) \in subs
  /\ \A c \in CallIds : calls[c].pc # "nokeys"

\* C34: the holo/agents/new of a login carries the agentId its holo/identify
\* carried, the agentId of the keypair the login generated; a login whose key
\* generation yielded no keypair sends no holo/agents/new and so does not go
\* on to resolve true.
C34_LoginHostsWhatItIdentified ==
  [][\A f \in LoginIds :
       (flows[f].pc = "hostEncoding" /\ flows'[f].pc = "hosting") =>
         /\ flows'[f].agentId = flows[f].agentId
         /\ flows'[f].agentId # UndefVal]_vars

\* C35: _postCall returns its argument as it got it, whatever the response
\* is, and a response that is no JSON, or JSON without Err.code 401, calls
\* triggerLoginPrompt not once.
C35_PostCallReturnsArgument ==
  [][\A c \in CallIds :
       (calls[c].pc = "sent" /\ calls'[c].pc # "sent") =>
         /\ calls'[c].pc = "done"
         /\ calls'[c].result = [form |-> "text", body |-> calls'[c].response]
         /\ calls'[c].response # "{Err:{code:401}}" => prompts' = prompts]_vars
\* a response that is no JSON and an error response without code 401 have
\* come back without a prompt
C35_Witness ==
  /\ prompts = 0
  /\ \E c \in CallIds :
       /\ calls[c].pc = "done"
       /\ calls[c].response \in {"not json", "{Err:no such function}"}
       /\ calls[c].result.body = calls[c].response

\* C38: requestHosting on the open channel sends exactly one holo/agents/new,
\* with the encoding of the bound keypair's signing public key as agentId
\* (undefined only when no keypair was bound when it was called) and the
\* session's happId.
C38_RequestHostingSendsOne ==
  [][\A f \in LoginIds :
       (flows[f].pc = "hostEncoding" /\ flows'[f].pc # "hostEncoding") =>
         LET agentId == IF flows[f].guard THEN AgentIdEncode(keypair) ELSE UndefVal
             msg == HostMsg(HoloAgentsNew, [agentId |-> agentId, happId |-> HappId])
         IN /\ websocket
            /\ flows'[f].pc = "hosting"
            /\ wire' = wire (+) SetToBag({msg})]_vars

\* C37: the promise encrypt returned settles in the end, whatever the
\* recipient list is, the empty one included.
C37_EncryptSettles ==
  (lib.last.op = "encrypt" /\ lib.last.outcome = "pending")
    ~> (lib.last.op = "encrypt" /\ lib.last.outcome # "pending")

\* C31: whatever newFromSeed, sign, verify, encrypt, decrypt, getBundle,
\* fromBundle or a function of util computes, draws or queues, it does after
\* the library's readiness has resolved; only the refusal of sign to sign
\* without a private key, which calls no primitive, comes before.
C31_ReadyBeforePrimitives ==
  [][lib'.ready = lib.ready =>
       \/ lib.ready
       \/ /\ lib'.last.op = "sign"
          /\ lib'.last.outcome = "threw"
          /\ lib'.draws = lib.draws
          /\ lib'.task = lib.task]_vars
\* a function of util and an operation of Keypair have run in a ready library
C31_Witness ==
  /\ lib.ready
  /\ lib.last.op = "fromBase64"
  /\ lib.draws > 0

\* C39: under one bound keypair and for names without a slash,
\* call(a, z, f)(p), call('a/z/f')(p) and callZome(a, z, f)(p) send the same
\* outer method holo/call and the same envelope, with instanceId = a,
\* zome = z, function = f and args = p, over the same signed string; with
\* any names the three forms still send the same request.
C39_FormsAgree ==
  \A form \in Forms :
    api.sent[form] # <<>> =>
      LET request == api.sent[form][1]
      IN /\ \A other \in Forms : api.sent[other] # <<>> => api.sent[other] = api.sent[form]
         /\ request.method = HoloCall
         /\ request.params.args = api.params
         /\ request.params.agentId = AgentIdEncode(api.key)
         /\ (SlashFree(api.instanceId) /\ SlashFree(api.zome) /\ SlashFree(api.func)) =>
              /\ request.params.instanceId = Val("string", "", <<api.instanceId>>)
              /\ request.params.zome = Val("string", "", <<api.zome>>)
              /\ request.params.function = Val("string", "", <<api.func>>)
\* the call was made in all three forms with three different slash-free names
\* and params that are not empty
C39_Witness ==
  /\ \A form \in Forms : api.sent[form] # <<>>
  /\ api.instanceId = <<"i">> /\ api.zome = <<"z", "f">> /\ api.func = <<>>
  /\ api.params # <<>>
\* C39 as stated, for all names: the envelope of every form carries the three
\* names as given.
C39_FormsCarryNames ==
  \A form \in Forms :
    api.sent[form] # <<>> =>
      LET request == api.sent[form][1]
      IN /\ request.params.instanceId = Val("string", "", <<api.instanceId>>)
         /\ request.params.zome = Val("string", "", <<api.zome>>)
         /\ request.params.function = Val("string", "", <<api.func>>)

====
